---- MODULE Spec2Model ----
(***************************************************************************)
(* Model of Vector<T> (src/vector.h): a resizable contiguous container     *)
(* with a manually managed buffer, and its Iterator / ConstIterator.       *)
(*                                                                         *)
(* A pointer is a pair (buffer id, offset); the free store is a function   *)
(* from buffer ids to arrays.  A slot never written since `new T[n]` holds *)
(* Undef (an indeterminate value).  A read past the end of an array is     *)
(* undefined behaviour and yields any slot value.                          *)
(***************************************************************************)
EXTENDS Integers, FiniteSets, Sequences, TLC

\* ---- bounds -------------------------------------------------------------
MaxCap == 4
NumValues == 2
MaxIL == 2
NBuf == 4

\* ---- basic domains ------------------------------------------------------
Names == {"A", "B"}
NULL == 0
Bufs == 1..NBuf
Undef == 0
Values == 1..NumValues
Slot == Values \cup {Undef}

VARIABLES vec, heap, call, pushed

vars == <<vec, heap, call, pushed>>

\* ---- the free store -----------------------------------------------------
NoCells == [i \in {} |-> Undef]

FreeBuf == [live |-> FALSE, cells |-> NoCells]

\* new value_type[n]: n slots of garbage at a fresh address
NewPtr(h) == CHOOSE b \in Bufs : ~h[b].live /\ \A c \in Bufs : ~h[c].live => b <= c

NewArray(h, n) == [h EXCEPT ![NewPtr(h)] = [live |-> TRUE, cells |-> [i \in 0..(n - 1) |-> Undef]]]

\* delete[] p  (a no-op on the null pointer)
DeleteArray(h, p) == IF p = NULL THEN h ELSE [h EXCEPT ![p] = FreeBuf]

\* ---- iterators ----------------------------------------------------------
\* Iterator / ConstIterator hold one raw pointer
MkIter(b, o) == [buf |-> b, off |-> o]

NullIter == MkIter(NULL, 0)

\* operator-(const_iterator, const_iterator)
IterDiff(lop, rop) == lop.off - rop.off

\* Iterator::operator++() : ++ptr; return *this;
IteratorPreInc(self) == [self EXCEPT !.off = @ + 1]

\* Iterator::operator++(int) : iterator old; operator++(); return old;
\* (old is default-constructed, never assigned from *this)
IteratorPostInc(self) == [old |-> NullIter, self |-> IteratorPreInc(self)]

\* ConstIterator::operator++()
ConstIteratorPreInc(self) == [self EXCEPT !.off = @ + 1]

\* ConstIterator::operator++(int) : const_iterator old; operator++(); return old;
ConstIteratorPostInc(self) == [old |-> NullIter, self |-> ConstIteratorPreInc(self)]

\* operator== of both iterator types: ptr == other.ptr
IterEq(a, b) == a.buf = b.buf /\ a.off = b.off

begin(m, v) == MkIter(m.vec[v].values, 0)

end(m, v) == MkIter(m.vec[v].values, m.vec[v].sz)

\* ---- observations -------------------------------------------------------
\* one read of values[i] made while the container had size s and capacity c
Rd(i, s, c) == [idx |-> i, sz |-> s, cap |-> c]

\* the elements [0, size) of container record c in store h
Elems(c, h) == [i \in 0..(c.sz - 1) |-> h[c.values].cells[i]]

Snap(c, h) == [sz |-> c.sz, max_sz |-> c.max_sz, values |-> c.values, elems |-> Elems(c, h)]

\* the machine state an operation transforms: containers, free store, and
\* what the call did (reads made, normal/exceptional exit, returned values)
\* self is the iterator object a call was made on, as the call leaves it;
\* stale tells that the call read its argument through a reference to a
\* released array or to a slot it had already overwritten
Mach(vc, h) ==
    [vec |-> vc, heap |-> h, reads |-> {}, outcome |-> "ok", it |-> NullIter, rv |-> Undef,
     self |-> NullIter, stale |-> FALSE]

Throw(m) == [m EXCEPT !.outcome = "throw"]

\* ---- private: reallocate ------------------------------------------------
RECURSIVE CopyLoop(_, _, _, _)
\* for (i = 0; i < n; ++i) dst[i] = src[i];
CopyLoop(dst, src, i, n) ==
    IF i < n THEN CopyLoop([dst EXCEPT ![i] = src[i]], src, i + 1, n) ELSE dst

\* reallocate that forgets `max_sz = new_size`
reallocateNoCap(m, v, new_size) ==
    LET c == m.vec[v]
    IN IF new_size < c.sz THEN m
       ELSE LET tmp_array == NewPtr(m.heap)
                h1 == NewArray(m.heap, new_size)
                src == IF c.values = NULL THEN NoCells ELSE h1[c.values].cells
                h2 == [h1 EXCEPT ![tmp_array].cells = CopyLoop(@, src, 0, c.sz)]
                h3 == DeleteArray(h2, c.values)
            IN [m EXCEPT !.heap = h3,
                         !.vec[v].values = tmp_array,
                         !.reads = @ \cup {Rd(i, c.sz, c.max_sz) : i \in 0..(c.sz - 1)}]

\* reallocate that forgets to copy the elements into the new array
reallocateNoCopy(m, v, new_size) ==
    LET c == m.vec[v]
    IN IF new_size < c.sz THEN m
       ELSE LET tmp_array == NewPtr(m.heap)
                h1 == NewArray(m.heap, new_size)
                h3 == DeleteArray(h1, c.values)
            IN [m EXCEPT !.heap = h3,
                         !.vec[v].values = tmp_array,
                         !.vec[v].max_sz = new_size]

reallocate(m, v, new_size) ==
    LET c == m.vec[v]
    IN IF new_size < c.sz THEN m
       ELSE LET tmp_array == NewPtr(m.heap)
                h1 == NewArray(m.heap, new_size)
                src == IF c.values = NULL THEN NoCells ELSE h1[c.values].cells
                h2 == [h1 EXCEPT ![tmp_array].cells = CopyLoop(@, src, 0, c.sz)]
                h3 == DeleteArray(h2, c.values)
            IN [m EXCEPT !.heap = h3,
                         !.vec[v].values = tmp_array,
                         !.vec[v].max_sz = new_size,
                         !.reads = @ \cup {Rd(i, c.sz, c.max_sz) : i \in 0..(c.sz - 1)}]

\* the growth policy used by push_back and insert
\* a doubling policy
GrowDouble(max_sz) == 2 * max_sz + 1

Grow(max_sz) == max_sz + max_sz \div 2 + 1

\* ---- constructors, destructor, assignment --------------------------------
DefaultVec == [sz |-> 0, max_sz |-> 0, values |-> NULL]

\* explicit Vector(const size_type n)
CtorN(m, v, n) ==
    [m EXCEPT !.heap = NewArray(@, n),
              !.vec[v] = [sz |-> 0, max_sz |-> n, values |-> NewPtr(m.heap)]]

\* Vector(std::initializer_list<value_type> il)
CtorIL(m, v, il) ==
    LET p == NewPtr(m.heap)
        h1 == NewArray(m.heap, Len(il))
    IN [m EXCEPT !.heap = [h1 EXCEPT ![p].cells = [i \in 0..(Len(il) - 1) |-> il[i + 1]]],
                 !.vec[v] = [sz |-> Len(il), max_sz |-> Len(il), values |-> p]]

\* a copy constructor that allocates only other.sz slots
CopyCtorTight(m, other) ==
    LET p == NewPtr(m.heap)
        h1 == NewArray(m.heap, other.sz)
        src == IF other.values = NULL THEN NoCells ELSE h1[other.values].cells
    IN [obj |-> [sz |-> other.sz, max_sz |-> other.sz, values |-> p],
        heap |-> [h1 EXCEPT ![p].cells = CopyLoop(@, src, 0, other.sz)],
        reads |-> {Rd(i, other.sz, other.max_sz) : i \in 0..(other.sz - 1)}]

\* Vector(const Vector<T> &other): returns the new object and the store
CopyCtor(m, other) ==
    LET p == NewPtr(m.heap)
        h1 == NewArray(m.heap, other.max_sz)
        src == IF other.values = NULL THEN NoCells ELSE h1[other.values].cells
    IN [obj |-> [sz |-> other.sz, max_sz |-> other.max_sz, values |-> p],
        heap |-> [h1 EXCEPT ![p].cells = CopyLoop(@, src, 0, other.sz)],
        reads |-> {Rd(i, other.sz, other.max_sz) : i \in 0..(other.sz - 1)}]

\* an operator= that takes its parameter by reference and swaps with the
\* source itself
assignSwapSource(m, v, src) ==
    [m EXCEPT !.vec[v] = m.vec[src], !.vec[src] = m.vec[v]]

\* operator=(Vector<T> other): the by-value parameter is copy-constructed
\* from src, the three fields are swapped, the parameter is destroyed
assign(m, v, src) ==
    LET cp == CopyCtor(m, m.vec[src])
        old == m.vec[v]
    IN [m EXCEPT !.vec[v] = cp.obj,
                 !.heap = DeleteArray(cp.heap, old.values),
                 !.reads = @ \cup cp.reads]

\* ~Vector(): delete[] values; the name then stands for no object, which
\* owns nothing
destroy(m, v) ==
    [m EXCEPT !.heap = DeleteArray(@, m.vec[v].values), !.vec[v] = DefaultVec]

\* Vector v{other} for a name that stands for no object
copy_construct(m, v, src) ==
    LET cp == CopyCtor(m, m.vec[src])
    IN [m EXCEPT !.vec[v] = cp.obj, !.heap = cp.heap, !.reads = @ \cup cp.reads]

\* ---- public operations --------------------------------------------------
size(m, v) == m.vec[v].sz

empty(m, v) == m.vec[v].sz = 0

capacity(m, v) == m.vec[v].max_sz

\* clear that also gives the array back
clearRelease(m, v) ==
    [m EXCEPT !.vec[v] = DefaultVec, !.heap = DeleteArray(@, m.vec[v].values)]

clear(m, v) == [m EXCEPT !.vec[v].sz = 0]

\* reserve that also reallocates when n equals the capacity
reserveOnEqual(m, v, n) == IF n >= m.vec[v].max_sz THEN reallocate(m, v, n) ELSE m

reserve(m, v, n) == IF n > m.vec[v].max_sz THEN reallocate(m, v, n) ELSE m

\* shrink_to_fit that reallocates whenever it is called
shrink_to_fitAlways(m, v) == reallocate(m, v, m.vec[v].sz)

shrink_to_fit(m, v) ==
    IF m.vec[v].sz < m.vec[v].max_sz THEN reallocate(m, v, m.vec[v].sz) ELSE m

push_back(m, v, el) ==
    LET m1 == IF m.vec[v].sz >= m.vec[v].max_sz
              THEN reallocate(m, v, Grow(m.vec[v].max_sz)) ELSE m
        c == m1.vec[v]
    IN [m1 EXCEPT !.heap[c.values].cells[c.sz] = el, !.vec[v].sz = c.sz + 1]

pop_back(m, v) ==
    IF m.vec[v].sz = 0 THEN Throw(m) ELSE [m EXCEPT !.vec[v].sz = @ - 1]

\* operator[] (both overloads make the same check); the caller then reads
\* through the returned reference
Index(m, v, index) ==
    LET c == m.vec[v]
    IN IF index >= c.sz THEN Throw(m)
       ELSE [m EXCEPT !.rv = m.heap[c.values].cells[index],
                      !.reads = @ \cup {Rd(index, c.sz, c.max_sz)}]

\* operator[] (mutable overload); the caller then writes through the reference
IndexAssign(m, v, index, val) ==
    LET c == m.vec[v]
    IN IF index >= c.sz THEN Throw(m)
       ELSE [m EXCEPT !.heap[c.values].cells[index] = val]

\* operator<<: reads values[0 .. sz-1] when the container is not empty
Render(m, v) ==
    LET c == m.vec[v]
    IN IF ~empty(m, v)
       THEN [m EXCEPT !.reads = @ \cup {Rd(i, c.sz, c.max_sz) : i \in 0..(c.sz - 1)}]
       ELSE m

\* ---- insert / erase ------------------------------------------------------
\* a shift that copies from the insertion point toward the tail, so that
\* every slot of (current, i] ends up holding values[current]
InsertShiftForward(st, i, current, c) ==
    [cells |-> [j \in DOMAIN st.cells |->
                   IF j > current /\ j <= i THEN st.cells[current] ELSE st.cells[j]],
     reads |-> st.reads \cup {Rd(j - 1, c.sz, c.max_sz) : j \in (current + 1)..i}]

RECURSIVE InsertShift(_, _, _, _)
\* for (i = sz; i > current; --i) values[i] = values[i - 1];
\* st = [cells, reads]; c is the container record (for the read log)
InsertShift(st, i, current, c) ==
    IF i > current
    THEN InsertShift([cells |-> [st.cells EXCEPT ![i] = st.cells[i - 1]],
                      reads |-> st.reads \cup {Rd(i - 1, c.sz, c.max_sz)}],
                     i - 1, current, c)
    ELSE st

\* insert that returns the position computed in the array it was given,
\* which growth has released
insertStaleIter(m, v, pos, val) ==
    LET diff == IterDiff(pos, begin(m, v))
    IN IF diff < 0 \/ diff > m.vec[v].sz THEN Throw(m)
       ELSE LET current == diff
                m1 == IF m.vec[v].sz >= m.vec[v].max_sz
                      THEN reallocate(m, v, Grow(m.vec[v].max_sz)) ELSE m
                c == m1.vec[v]
                st == InsertShift([cells |-> m1.heap[c.values].cells, reads |-> m1.reads],
                                  c.sz, current, c)
            IN [m1 EXCEPT !.heap[c.values].cells = [st.cells EXCEPT ![current] = val],
                          !.reads = st.reads,
                          !.vec[v].sz = c.sz + 1,
                          !.it = MkIter(pos.buf, current)]

\* insert whose range check is `>= sz`, rejecting the position end()
insertRejectEnd(m, v, pos, val) ==
    LET diff == IterDiff(pos, begin(m, v))
    IN IF diff < 0 \/ diff >= m.vec[v].sz THEN Throw(m)
       ELSE LET current == diff
                m1 == IF m.vec[v].sz >= m.vec[v].max_sz
                      THEN reallocate(m, v, Grow(m.vec[v].max_sz)) ELSE m
                c == m1.vec[v]
                st == InsertShift([cells |-> m1.heap[c.values].cells, reads |-> m1.reads],
                                  c.sz, current, c)
            IN [m1 EXCEPT !.heap[c.values].cells = [st.cells EXCEPT ![current] = val],
                          !.reads = st.reads,
                          !.vec[v].sz = c.sz + 1,
                          !.it = MkIter(c.values, current)]

\* insert that grows before it checks the position
insertGrowFirst(m, v, pos, val) ==
    LET diff == IterDiff(pos, begin(m, v))
        m1 == IF m.vec[v].sz >= m.vec[v].max_sz
              THEN reallocate(m, v, Grow(m.vec[v].max_sz)) ELSE m
    IN IF diff < 0 \/ diff > m.vec[v].sz THEN Throw(m1)
       ELSE LET current == diff
                c == m1.vec[v]
                st == InsertShift([cells |-> m1.heap[c.values].cells, reads |-> m1.reads],
                                  c.sz, current, c)
            IN [m1 EXCEPT !.heap[c.values].cells = [st.cells EXCEPT ![current] = val],
                          !.reads = st.reads,
                          !.vec[v].sz = c.sz + 1,
                          !.it = MkIter(c.values, current)]

\* insert that grows by one slot instead of by the growth policy
insertGrowByOne(m, v, pos, val) ==
    LET diff == IterDiff(pos, begin(m, v))
    IN IF diff < 0 \/ diff > m.vec[v].sz THEN Throw(m)
       ELSE LET current == diff
                m1 == IF m.vec[v].sz >= m.vec[v].max_sz
                      THEN reallocate(m, v, m.vec[v].max_sz + 1) ELSE m
                c == m1.vec[v]
                st == InsertShift([cells |-> m1.heap[c.values].cells, reads |-> m1.reads],
                                  c.sz, current, c)
            IN [m1 EXCEPT !.heap[c.values].cells = [st.cells EXCEPT ![current] = val],
                          !.reads = st.reads,
                          !.vec[v].sz = c.sz + 1,
                          !.it = MkIter(c.values, current)]

insert(m, v, pos, val) ==
    LET diff == IterDiff(pos, begin(m, v))
    IN IF diff < 0 \/ diff > m.vec[v].sz THEN Throw(m)
       ELSE LET current == diff
                m1 == IF m.vec[v].sz >= m.vec[v].max_sz
                      THEN reallocate(m, v, Grow(m.vec[v].max_sz)) ELSE m
                c == m1.vec[v]
                st == InsertShift([cells |-> m1.heap[c.values].cells, reads |-> m1.reads],
                                  c.sz, current, c)
            IN [m1 EXCEPT !.heap[c.values].cells = [st.cells EXCEPT ![current] = val],
                          !.reads = st.reads,
                          !.vec[v].sz = c.sz + 1,
                          !.it = MkIter(c.values, current)]

\* the value a read of cells[i] yields: the slot when i is inside the array,
\* anything (g) when it is past the end of the array
ReadSlot(cells, i, max_sz, g) == IF i < max_sz THEN cells[i] ELSE g

RECURSIVE EraseShift(_, _, _, _)
\* for (i = current; i < sz; ++i) values[i] = values[i + 1];
EraseShift(st, i, c, g) ==
    IF i < c.sz
    THEN EraseShift([cells |-> [st.cells EXCEPT ![i] = ReadSlot(st.cells, i + 1, c.max_sz, g)],
                     reads |-> st.reads \cup {Rd(i + 1, c.sz, c.max_sz)}],
                    i + 1, c, g)
    ELSE st

\* erase that drops the last element instead of shifting the tail down
eraseNoShift(m, v, pos, g) ==
    LET diff == IterDiff(pos, begin(m, v))
        c == m.vec[v]
    IN IF diff < 0 \/ diff >= c.sz THEN Throw(m)
       ELSE [m EXCEPT !.vec[v].sz = c.sz - 1,
                      !.it = MkIter(c.values, diff)]

erase(m, v, pos, g) ==
    LET diff == IterDiff(pos, begin(m, v))
        c == m.vec[v]
    IN IF diff < 0 \/ diff >= c.sz THEN Throw(m)
       ELSE LET current == diff
                st == EraseShift([cells |-> m.heap[c.values].cells, reads |-> m.reads],
                                 current, c, g)
            IN [m EXCEPT !.heap[c.values].cells = st.cells,
                         !.reads = st.reads,
                         !.vec[v].sz = c.sz - 1,
                         !.it = MkIter(c.values, current)]

\* ---- value arguments that refer to an element of the container ------------
\* what reading through the reference ref yields: the slot it points at, or
\* anything (g) once the array it points into has been released
Deref(h, ref, g) == IF h[ref.buf].live THEN h[ref.buf].cells[ref.off] ELSE g

\* v.push_back(v[i]): el is bound to values[i] of the array as it is at the call
push_backRef(m, v, i, g) ==
    LET el == MkIter(m.vec[v].values, i)
        m1 == IF m.vec[v].sz >= m.vec[v].max_sz
              THEN reallocate(m, v, Grow(m.vec[v].max_sz)) ELSE m
        c == m1.vec[v]
    IN [m1 EXCEPT !.heap[c.values].cells[c.sz] = Deref(m1.heap, el, g),
                  !.vec[v].sz = c.sz + 1,
                  !.stale = ~m1.heap[el.buf].live]

\* v.insert(pos, v[i]): val is bound to values[i] of the array as it is at the call
insertRef(m, v, pos, i, g) ==
    LET diff == IterDiff(pos, begin(m, v))
        val == MkIter(m.vec[v].values, i)
    IN IF diff < 0 \/ diff > m.vec[v].sz THEN Throw(m)
       ELSE LET current == diff
                m1 == IF m.vec[v].sz >= m.vec[v].max_sz
                      THEN reallocate(m, v, Grow(m.vec[v].max_sz)) ELSE m
                c == m1.vec[v]
                st == InsertShift([cells |-> m1.heap[c.values].cells, reads |-> m1.reads],
                                  c.sz, current, c)
                h2 == [m1.heap EXCEPT ![c.values].cells = st.cells]
            IN [m1 EXCEPT !.heap = [h2 EXCEPT ![c.values].cells[current] = Deref(h2, val, g)],
                          !.reads = st.reads,
                          !.vec[v].sz = c.sz + 1,
                          !.it = MkIter(c.values, current),
                          !.stale = ~h2[val.buf].live \/ (val.buf = c.values /\ i > current)]

\* ---- the state machine ----------------------------------------------------
RECURSIVE SeqsUpTo(_)
SeqsUpTo(n) == IF n = 0 THEN {<<>>} ELSE SeqsUpTo(n - 1) \cup [1..n -> Values]

EmptyHeap == [b \in Bufs |-> FreeBuf]

EmptyVecs == [v \in Names |-> DefaultVec]

NoSnap == [valid |-> FALSE, k |-> 0, snap |-> Snap(DefaultVec, EmptyHeap)]

\* the caller holds no result: it is between two calls
NoCall == [op |-> "none", k |-> 0, val |-> Undef, outcome |-> "ok",
           it |-> NullIter, rv |-> Undef, reads |-> {},
           pre |-> Snap(DefaultVec, EmptyHeap), prev |-> NoSnap, twin |-> NoSnap,
           self |-> NullIter, stale |-> FALSE, src |-> 0, prelive |-> {},
           tgt |-> "A", other |-> Snap(DefaultVec, EmptyHeap)]

Cur == Mach(vec, heap)

\* the state of the call before this one, kept when an insert directly
\* follows an accepted erase, or a shrink_to_fit a shrink_to_fit
PrevOf(name) ==
    IF \/ name = "insert" /\ call.op = "erase" /\ call.outcome = "ok"
       \/ name = "shrink_to_fit" /\ call.op = "shrink_to_fit"
    THEN [valid |-> TRUE, k |-> call.k, snap |-> call.pre]
    ELSE NoSnap

\* what the sibling operation makes of the same state and value:
\* push_back(val) for insert(end(), val), insert(end(), val) for push_back(val)
TwinOf(name, k, val) ==
    IF name = "insert" /\ k = vec["A"].sz
    THEN LET t == push_back(Cur, "A", val)
         IN [valid |-> TRUE, k |-> k, snap |-> Snap(t.vec["A"], t.heap)]
    ELSE IF name = "push_back"
    THEN LET t == insert(Cur, "A", end(Cur, "A"), val)
         IN [valid |-> TRUE, k |-> vec["A"].sz, snap |-> Snap(t.vec["A"], t.heap)]
    ELSE NoSnap

\* the record of the call just made on A: its arguments, the state before
\* it, and what it returned
Live(h) == {b \in Bufs : h[b].live}

Call(name, k, val, m) ==
    [op |-> name, k |-> k, val |-> val, outcome |-> m.outcome,
     it |-> m.it, rv |-> m.rv, reads |-> m.reads,
     pre |-> Snap(vec["A"], heap), prev |-> PrevOf(name), twin |-> TwinOf(name, k, val),
     self |-> m.self, stale |-> m.stale, src |-> 0, prelive |-> Live(heap),
     tgt |-> "A", other |-> Snap(vec["B"], heap)]

NotPushed == [only |-> FALSE, vals |-> <<>>]

\* The caller makes a call when it holds no result of an earlier one, or
\* makes an insert directly on the result of an erase, or calls shrink_to_fit
\* twice in a row.
MayCall(name) ==
    \/ call.op = "none"
    \/ name = "insert" /\ call.op = "erase"
    \/ name = "shrink_to_fit" /\ call.op = "shrink_to_fit"

Commit(name, k, val, m) ==
    /\ MayCall(name)
    /\ m.vec["A"].max_sz <= MaxCap
    /\ vec' = m.vec
    /\ heap' = m.heap
    /\ call' = Call(name, k, val, m)
    /\ pushed' = IF name = "push_back" /\ pushed.only
                 THEN [pushed EXCEPT !.vals = Append(@, val)]
                 ELSE NotPushed

\* A is built by one of the constructors; B is default-constructed
Init ==
    \E m \in {Mach(EmptyVecs, EmptyHeap)}
             \cup {CtorN(Mach(EmptyVecs, EmptyHeap), "A", n) : n \in 0..MaxCap}
             \cup {CtorIL(Mach(EmptyVecs, EmptyHeap), "A", il) : il \in SeqsUpTo(MaxIL)} :
        /\ vec = m.vec
        /\ heap = m.heap
        /\ call = NoCall
        /\ pushed = [only |-> m.vec["A"].sz = 0, vals |-> <<>>]

Clear == Commit("clear", 0, Undef, clear(Cur, "A"))

Reserve == \E n \in 0..MaxCap : Commit("reserve", n, Undef, reserve(Cur, "A", n))

ShrinkToFit == Commit("shrink_to_fit", 0, Undef, shrink_to_fit(Cur, "A"))

PushBack == \E el \in Values : Commit("push_back", 0, el, push_back(Cur, "A", el))

PopBack == Commit("pop_back", 0, Undef, pop_back(Cur, "A"))

\* indices inside [0, size) and the first two outside it
IndexRead == \E index \in 0..(vec["A"].sz + 1) : Commit("index", index, Undef, Index(Cur, "A", index))

IndexWrite ==
    \E index \in 0..(vec["A"].sz + 1), val \in Values :
        Commit("index_assign", index, val, IndexAssign(Cur, "A", index, val))

StreamOut == Commit("render", 0, Undef, Render(Cur, "A"))

\* the position is begin() + k, for offsets inside and just outside [0, size]
Insert ==
    \E k \in (-1)..(vec["A"].sz + 1), val \in Values :
        Commit("insert", k, val, insert(Cur, "A", MkIter(vec["A"].values, k), val))

\* g is what the read past the end of the array yields, when erase makes one
Erase ==
    \E k \in (-1)..(vec["A"].sz + 1),
       g \in IF vec["A"].sz = vec["A"].max_sz THEN Slot ELSE {Undef} :
        Commit("erase", k, Undef, erase(Cur, "A", MkIter(vec["A"].values, k), g))

\* A = A
SelfAssign == Commit("assign", 0, Undef, assign(Cur, "A", "A"))

\* v.push_back(v[i]) and v.insert(begin() + k, v[i]); g is what a read through
\* a dangling reference yields
CommitRef(name, k, i, m) ==
    /\ call.op = "none"
    /\ m.vec["A"].max_sz <= MaxCap
    /\ vec' = m.vec
    /\ heap' = m.heap
    /\ call' = [Call(name, k, Undef, m) EXCEPT !.src = i]
    /\ pushed' = NotPushed

PushBackRef ==
    \E i \in 0..(vec["A"].sz - 1),
       g \in IF vec["A"].sz = vec["A"].max_sz THEN Slot ELSE {Undef} :
        CommitRef("push_back_ref", 0, i, push_backRef(Cur, "A", i, g))

InsertRef ==
    \E k \in 0..vec["A"].sz, i \in 0..(vec["A"].sz - 1),
       g \in IF vec["A"].sz = vec["A"].max_sz THEN Slot ELSE {Undef} :
        CommitRef("insert_ref", k, i, insertRef(Cur, "A", MkIter(vec["A"].values, k), i, g))

\* it = begin() + k; it++   (Iterator, then ConstIterator)
IterPostInc ==
    \E k \in 0..vec["A"].sz :
        LET r == IteratorPostInc(MkIter(vec["A"].values, k))
        IN Commit("iterator_post_inc", k, Undef, [Cur EXCEPT !.it = r.old, !.self = r.self])

ConstIterPostInc ==
    \E k \in 0..vec["A"].sz :
        LET r == ConstIteratorPostInc(MkIter(vec["A"].values, k))
        IN Commit("const_iterator_post_inc", k, Undef, [Cur EXCEPT !.it = r.old, !.self = r.self])

\* the caller drops the result of the call it made; the container is untouched
Return ==
    /\ call.op # "none"
    /\ call' = NoCall
    /\ UNCHANGED <<vec, heap, pushed>>

Next ==
    \/ Clear
    \/ Reserve
    \/ ShrinkToFit
    \/ PushBack
    \/ PopBack
    \/ IndexRead
    \/ IndexWrite
    \/ StreamOut
    \/ Insert
    \/ Erase
    \/ SelfAssign
    \/ Return

Spec == Init /\ [][Next]_vars

\* ---- one container, with iterators stepped and with value arguments that
\* ---- refer to the container's own elements
NextAlias ==
    \/ PushBack
    \/ PopBack
    \/ Insert
    \/ Erase
    \/ PushBackRef
    \/ InsertRef
    \/ IterPostInc
    \/ ConstIterPostInc
    \/ Return

SpecAlias == Init /\ [][NextAlias]_vars

\* ---- two containers: copies and their independence --------------------------
MaxCapC == 2

Other(v) == IF v = "A" THEN "B" ELSE "A"

\* the containers the caller takes elements out of (clear, pop_back, erase);
\* every other call is made on both
Shrunk == {"A"}

\* the record of a call made on container tgt, with the state of the other
\* container before the call
CallOn(tgt, name, k, val, m) ==
    [Call(name, k, val, m) EXCEPT !.pre = Snap(vec[tgt], heap), !.tgt = tgt,
                                  !.other = Snap(vec[Other(tgt)], heap),
                                  !.prev = NoSnap, !.twin = NoSnap]

CommitOn(tgt, name, k, val, m) ==
    /\ call.op = "none"
    /\ \A v \in Names : m.vec[v].max_sz <= MaxCapC
    /\ vec' = m.vec
    /\ heap' = m.heap
    /\ call' = CallOn(tgt, name, k, val, m)
    /\ pushed' = NotPushed

\* A is built from a literal sequence; B stands for no object yet
InitCopy ==
    \E il \in SeqsUpTo(MaxIL) :
        LET m == CtorIL(Mach(EmptyVecs, EmptyHeap), "A", il)
        IN /\ Len(il) <= MaxCapC
           /\ vec = m.vec
           /\ heap = m.heap
           /\ call = NoCall
           /\ pushed = NotPushed

ClearOn == \E v \in Shrunk : CommitOn(v, "clear", 0, Undef, clear(Cur, v))

ReserveOn ==
    \E v \in Names, n \in 0..MaxCapC : CommitOn(v, "reserve", n, Undef, reserve(Cur, v, n))

ShrinkToFitOn == \E v \in Names : CommitOn(v, "shrink_to_fit", 0, Undef, shrink_to_fit(Cur, v))

PushBackOn ==
    \E v \in Names, el \in Values : CommitOn(v, "push_back", 0, el, push_back(Cur, v, el))

PopBackOn == \E v \in Shrunk : CommitOn(v, "pop_back", 0, Undef, pop_back(Cur, v))

IndexWriteOn ==
    \E v \in Names : \E index \in 0..vec[v].sz, val \in Values :
        CommitOn(v, "index_assign", index, val, IndexAssign(Cur, v, index, val))

InsertOn ==
    \E v \in Names : \E k \in 0..vec[v].sz, val \in Values :
        CommitOn(v, "insert", k, val, insert(Cur, v, MkIter(vec[v].values, k), val))

EraseOn ==
    \E v \in Shrunk : \E k \in 0..vec[v].sz,
       g \in IF vec[v].sz = vec[v].max_sz THEN Slot ELSE {Undef} :
        CommitOn(v, "erase", k, Undef, erase(Cur, v, MkIter(vec[v].values, k), g))

\* v = v
AssignSelfOn == \E v \in Names : CommitOn(v, "assign", 0, Undef, assign(Cur, v, v))

\* v = w for the other container w
AssignFromOn == \E v \in Names : CommitOn(v, "assign_from", 0, Undef, assign(Cur, v, Other(v)))

\* Vector v{w}, where the name v stands for no object
CopyConstructOn ==
    \E v \in Names :
        /\ vec[v] = DefaultVec
        /\ CommitOn(v, "copy_construct", 0, Undef, copy_construct(Cur, v, Other(v)))

\* v goes out of scope
DestroyOn == \E v \in Names : CommitOn(v, "destroy", 0, Undef, destroy(Cur, v))

NextCopy ==
    \/ ClearOn
    \/ ReserveOn
    \/ ShrinkToFitOn
    \/ PushBackOn
    \/ PopBackOn
    \/ IndexWriteOn
    \/ InsertOn
    \/ EraseOn
    \/ AssignSelfOn
    \/ AssignFromOn
    \/ CopyConstructOn
    \/ DestroyOn
    \/ Return

SpecCopy == InitCopy /\ [][NextCopy]_vars

\* ---- failing allocations and failing element copies -------------------------
\* `new value_type[n]` may throw std::bad_alloc, and the copy assignment of an
\* element (dst[i] = src[i]) may throw for a value_type whose operator= can.
\* A fault says what fails in a call: nothing, the allocation, or the copy of
\* element number `at`.
NoFault == [kind |-> "none", at |-> 0]

AllocFault == [kind |-> "alloc", at |-> 0]

CopyFault(j) == [kind |-> "copy", at |-> j]

\* the faults possible in a call that copies n elements
Faults(n) == {NoFault, AllocFault} \cup {CopyFault(j) : j \in 0..(n - 1)}

\* reallocate: no handler surrounds the copy loop, so an exception leaves the
\* function with tmp_array allocated and `delete[]` not reached
reallocateF(m, v, new_size, f) ==
    LET c == m.vec[v]
    IN IF new_size < c.sz THEN m
       ELSE IF f.kind = "alloc" THEN [m EXCEPT !.outcome = "bad_alloc"]
       ELSE IF f.kind = "copy" /\ f.at < c.sz
       THEN LET tmp_array == NewPtr(m.heap)
                h1 == NewArray(m.heap, new_size)
                src == IF c.values = NULL THEN NoCells ELSE h1[c.values].cells
            IN [m EXCEPT !.heap = [h1 EXCEPT ![tmp_array].cells = CopyLoop(@, src, 0, f.at)],
                         !.outcome = "copy_throw",
                         !.reads = @ \cup {Rd(i, c.sz, c.max_sz) : i \in 0..f.at}]
       ELSE reallocate(m, v, new_size)

reserveF(m, v, n, f) == IF n > m.vec[v].max_sz THEN reallocateF(m, v, n, f) ELSE m

push_backF(m, v, el, f) ==
    LET m1 == IF m.vec[v].sz >= m.vec[v].max_sz
              THEN reallocateF(m, v, Grow(m.vec[v].max_sz), f) ELSE m
        c == m1.vec[v]
    IN IF m1.outcome # "ok" THEN m1
       ELSE [m1 EXCEPT !.heap[c.values].cells[c.sz] = el, !.vec[v].sz = c.sz + 1]

\* Vector(const Vector<T> &other): an exception in the body leaves the
\* constructor with `values` allocated; no destructor runs for the object
CopyCtorF(m, other, f) ==
    IF f.kind = "alloc"
    THEN [obj |-> DefaultVec, heap |-> m.heap, reads |-> {}, outcome |-> "bad_alloc"]
    ELSE IF f.kind = "copy" /\ f.at < other.sz
    THEN LET p == NewPtr(m.heap)
             h1 == NewArray(m.heap, other.max_sz)
             src == IF other.values = NULL THEN NoCells ELSE h1[other.values].cells
         IN [obj |-> DefaultVec,
             heap |-> [h1 EXCEPT ![p].cells = CopyLoop(@, src, 0, f.at)],
             reads |-> {Rd(i, other.sz, other.max_sz) : i \in 0..f.at},
             outcome |-> "copy_throw"]
    ELSE LET cp == CopyCtor(m, other)
         IN [obj |-> cp.obj, heap |-> cp.heap, reads |-> cp.reads, outcome |-> "ok"]

\* Vector v{other} for a name that stands for no object
copy_constructF(m, v, src, f) ==
    LET cp == CopyCtorF(m, m.vec[src], f)
    IN [m EXCEPT !.vec[v] = cp.obj, !.heap = cp.heap, !.reads = @ \cup cp.reads,
                 !.outcome = cp.outcome]

\* an operator= that releases the target's array before it copies the source
assignInPlaceF(m, v, src, f) ==
    LET m0 == IF v = src THEN m ELSE destroy(m, v)
        cp == CopyCtorF(m0, m0.vec[src], f)
    IN IF cp.outcome # "ok"
       THEN [m0 EXCEPT !.heap = cp.heap, !.reads = @ \cup cp.reads, !.outcome = cp.outcome]
       ELSE [m0 EXCEPT !.vec[v] = cp.obj,
                       !.heap = DeleteArray(cp.heap, m0.vec[v].values),
                       !.reads = @ \cup cp.reads]

\* operator=(Vector<T> other): the parameter is copy-constructed at the call;
\* if that throws, the body (the swaps) is never entered
assignF(m, v, src, f) ==
    LET cp == CopyCtorF(m, m.vec[src], f)
    IN IF cp.outcome # "ok"
       THEN [m EXCEPT !.heap = cp.heap, !.reads = @ \cup cp.reads, !.outcome = cp.outcome]
       ELSE assign(m, v, src)

\* arrays that are allocated and that no container holds
Leaked(vc, h) == {b \in Live(h) : \A v \in Names : vc[v].values # b}

\* The caller makes these calls until an array has leaked; an allocation
\* succeeds only while the free store has room.
MayFault(f) ==
    /\ Leaked(vec, heap) = {}
    /\ f.kind # "alloc" => Live(heap) # Bufs

\* the objects whose calls can fail: B is reserved, grown, assigned and
\* copy-constructed, A is the source it is copied from
Faulty == {"B"}

ReserveF ==
    \E v \in Faulty : \E n \in 0..MaxCapC, f \in Faults(vec[v].sz) :
        /\ MayFault(f)
        /\ CommitOn(v, "reserve", n, Undef, reserveF(Cur, v, n, f))

PushBackF ==
    \E v \in Faulty : \E el \in Values, f \in Faults(vec[v].sz) :
        /\ MayFault(f)
        /\ CommitOn(v, "push_back", 0, el, push_backF(Cur, v, el, f))

AssignSelfF ==
    \E v \in Faulty : \E f \in Faults(vec[v].sz) :
        /\ MayFault(f)
        /\ CommitOn(v, "assign", 0, Undef, assignF(Cur, v, v, f))

AssignFromF ==
    \E v \in Faulty : \E f \in Faults(vec[Other(v)].sz) :
        /\ MayFault(f)
        /\ CommitOn(v, "assign_from", 0, Undef, assignF(Cur, v, Other(v), f))

CopyConstructF ==
    \E v \in Faulty : \E f \in Faults(vec[Other(v)].sz) :
        /\ vec[v] = DefaultVec
        /\ MayFault(f)
        /\ CommitOn(v, "copy_construct", 0, Undef, copy_constructF(Cur, v, Other(v), f))

NextFail ==
    \/ ReserveF
    \/ PushBackF
    \/ AssignSelfF
    \/ AssignFromF
    \/ CopyConstructF
    \/ DestroyOn
    \/ Return

SpecFail == InitCopy /\ [][NextFail]_vars

\* ---- properties -----------------------------------------------------------
A == vec["A"]

Now == Snap(vec["A"], heap)

TypeOK ==
    /\ A.sz \in 0..MaxCap /\ A.max_sz \in 0..MaxCap
    /\ A.values \in Bufs \cup {NULL}
    /\ A.values # NULL => heap[A.values].live /\ DOMAIN heap[A.values].cells = 0..(A.max_sz - 1)
    /\ A.values = NULL => A.max_sz = 0

Full(sn) == sn.sz = sn.max_sz

Accepted(name) == call.op = name /\ call.outcome = "ok"

\* C1: in every reachable state, after any constructor and any sequence of
\* calls (accepted or rejected), size() <= capacity().
C1_SizeLeCapacity == size(Cur, "A") <= capacity(Cur, "A")

\* a push_back on a full container has grown it and filled it again
C1_Witness == Accepted("push_back") /\ Full(call.pre) /\ call.pre.sz > 0 /\ A.sz = A.max_sz

\* C2: no operation reads a slot whose index is >= the size the container
\* has at the moment of the read.
C2_NoReadAtOrBeyondSize == \A r \in call.reads : r.idx < r.sz

\* C3: push_back and an accepted insert set the capacity to
\* old + old/2 + 1 when the container was full (0 -> 1 -> 2 -> 4) and leave
\* it unchanged otherwise.
C3_GrowthPolicy ==
    (Accepted("push_back") \/ Accepted("insert")) =>
        IF Full(call.pre)
        THEN /\ A.max_sz = call.pre.max_sz + call.pre.max_sz \div 2 + 1
             /\ A.max_sz > call.pre.max_sz
             /\ call.pre.max_sz = 0 => A.max_sz = 1
             /\ call.pre.max_sz = 1 => A.max_sz = 2
             /\ call.pre.max_sz = 2 => A.max_sz = 4
        ELSE A.max_sz = call.pre.max_sz

\* an insert grew a full container of capacity 2 to capacity 4
C3_Witness == Accepted("insert") /\ Full(call.pre) /\ call.pre.max_sz = 2 /\ A.max_sz = 4

\* C4: after n push_back calls on an empty container, size() = n and
\* indexed access at i returns the (i+1)-th value pushed; any push_back keeps
\* the elements [0, size) and puts the new value at index old size.
C4_PushBackAppends ==
    /\ pushed.only =>
          /\ size(Cur, "A") = Len(pushed.vals)
          /\ \A i \in 0..(Len(pushed.vals) - 1) :
                /\ Index(Cur, "A", i).outcome = "ok"
                /\ Index(Cur, "A", i).rv = pushed.vals[i + 1]
    /\ Accepted("push_back") =>
          /\ Now.sz = call.pre.sz + 1
          /\ \A i \in 0..(call.pre.sz - 1) : Now.elems[i] = call.pre.elems[i]
          /\ Now.elems[call.pre.sz] = call.val

\* three push_backs on a default-constructed container, across three growths
C4_Witness ==
    /\ pushed.only /\ Len(pushed.vals) = 3 /\ A.max_sz = 4
    /\ pushed.vals[1] # pushed.vals[2]

\* the sequence old[0..k) , val , old[k..n)
WithInserted(old, n, k, val) ==
    [i \in 0..n |-> IF i < k THEN old[i] ELSE IF i = k THEN val ELSE old[i - 1]]

\* the sequence old[0..k) , old(k..n)
WithErased(old, n, k) ==
    [i \in 0..(n - 2) |-> IF i < k THEN old[i] ELSE old[i + 1]]

\* C5: an accepted insert at offset k makes the size old size + 1 and the
\* elements old[0..k), value, old[k..old size), and returns the iterator at
\* offset k from begin() as it is after the call, with or without growth.
C5_InsertPost ==
    Accepted("insert") =>
        /\ Now.sz = call.pre.sz + 1
        /\ Now.elems = WithInserted(call.pre.elems, call.pre.sz, call.k, call.val)
        /\ call.it = MkIter(begin(Cur, "A").buf, call.k)
        /\ IterDiff(call.it, begin(Cur, "A")) = call.k

\* an insert in the middle of a full container, which reallocated
C5_Witness ==
    /\ Accepted("insert") /\ Full(call.pre) /\ call.k > 0 /\ call.k < call.pre.sz
    /\ A.values # call.pre.values

\* C6: an accepted erase at offset k makes the size old size - 1 and the
\* elements old[0..k), old(k..old size), keeps the capacity, and returns the
\* iterator at offset k from begin() (end() when the last element went).
C6_ErasePost ==
    Accepted("erase") =>
        /\ Now.sz = call.pre.sz - 1
        /\ Now.elems = WithErased(call.pre.elems, call.pre.sz, call.k)
        /\ Now.max_sz = call.pre.max_sz
        /\ call.it = MkIter(begin(Cur, "A").buf, call.k)
        /\ call.k = call.pre.sz - 1 => call.it = end(Cur, "A")

\* an erase of the first of three elements of a full container
C6_Witness ==
    /\ Accepted("erase") /\ Full(call.pre) /\ call.pre.sz = 3 /\ call.k = 0
    /\ call.pre.elems[0] # call.pre.elems[1]

\* C7: pop_back fails iff size = 0; indexed access fails iff index >= size;
\* insert fails iff the offset is negative or > size; erase fails iff the
\* offset is negative or >= size.
C7_RejectedIffPrecondition ==
    LET rejected == call.outcome = "throw"
    IN /\ call.op = "pop_back" => (rejected <=> call.pre.sz = 0)
       /\ call.op \in {"index", "index_assign"} => (rejected <=> call.k >= call.pre.sz)
       /\ call.op = "insert" => (rejected <=> (call.k < 0 \/ call.k > call.pre.sz))
       /\ call.op = "erase" => (rejected <=> (call.k < 0 \/ call.k >= call.pre.sz))
       /\ call.op \notin {"pop_back", "index", "index_assign", "insert", "erase"} => ~rejected

\* an insert at offset size was accepted on a non-empty container
C7_Witness == Accepted("insert") /\ call.k = call.pre.sz /\ call.pre.sz > 0

\* C8: a rejected call leaves size, capacity, the buffer and the elements
\* as they were; a rejected insert on a full container does not grow it.
C8_RejectedChangesNothing ==
    call.outcome = "throw" =>
        /\ Now = call.pre
        /\ A.values # NULL => heap[A.values].live

\* an insert was rejected on a full container
C8_Witness ==
    /\ call.op = "insert" /\ call.outcome = "throw" /\ Full(call.pre) /\ call.pre.sz > 0

\* C9: erase at offset k followed immediately by insert of the erased value
\* at offset k gives back the pre-erase elements, size and capacity.
C9_EraseThenInsertRestores ==
    (/\ Accepted("insert") /\ call.prev.valid /\ call.k = call.prev.k
     /\ call.val = call.prev.snap.elems[call.k]) =>
        /\ Now.sz = call.prev.snap.sz
        /\ Now.elems = call.prev.snap.elems
        /\ Now.max_sz = call.prev.snap.max_sz

\* the first of three elements of a full container was erased and put back
C9_Witness ==
    /\ Accepted("insert") /\ call.prev.valid /\ call.k = call.prev.k /\ call.k = 0
    /\ call.val = call.prev.snap.elems[0]
    /\ call.prev.snap.sz = 3 /\ Full(call.prev.snap)
    /\ call.prev.snap.elems[1] # call.prev.snap.elems[2]

\* C10: insert(end(), x) and push_back(x), applied to the same state, give
\* the same size, elements and capacity.
C10_InsertAtEndIsPushBack ==
    (call.twin.valid /\ call.outcome = "ok") =>
        /\ Now.sz = call.twin.snap.sz
        /\ Now.elems = call.twin.snap.elems
        /\ Now.max_sz = call.twin.snap.max_sz

\* insert(end(), x) on a full container of capacity 2
C10_Witness ==
    /\ Accepted("insert") /\ call.twin.valid /\ Full(call.pre) /\ call.pre.sz = 2
    /\ call.k = call.pre.sz

\* C13: reserve(n) with n > capacity makes the capacity exactly n, keeps the
\* size and the elements, and releases the old array; with n <= capacity it
\* changes nothing.
C13_Reserve ==
    Accepted("reserve") =>
        IF call.k > call.pre.max_sz
        THEN /\ Now.max_sz = call.k
             /\ Now.sz = call.pre.sz
             /\ Now.elems = call.pre.elems
             /\ Now.values # call.pre.values /\ heap[Now.values].live
             /\ call.pre.values # NULL => ~heap[call.pre.values].live
        ELSE Now = call.pre /\ Live(heap) = call.prelive

\* a reserve moved two elements to a larger array
C13_Witness ==
    /\ Accepted("reserve") /\ call.k > call.pre.max_sz /\ call.pre.sz = 2
    /\ call.pre.elems[0] # call.pre.elems[1]

\* C14: shrink_to_fit leaves capacity = size with the size and the elements
\* unchanged; a second call in a row, and any call made when size = capacity,
\* reallocates nothing and changes nothing.
C14_ShrinkToFit ==
    Accepted("shrink_to_fit") =>
        /\ Now.max_sz = Now.sz
        /\ Now.sz = call.pre.sz
        /\ Now.elems = call.pre.elems
        /\ Full(call.pre) => (Now = call.pre /\ Live(heap) = call.prelive)
        /\ call.prev.valid => (Now = call.pre /\ Live(heap) = call.prelive)

\* the second of two shrink_to_fit calls in a row, the first of which had
\* capacity to give back
C14_Witness ==
    /\ Accepted("shrink_to_fit") /\ call.prev.valid
    /\ call.prev.snap.sz < call.prev.snap.max_sz /\ call.prev.snap.sz > 0

\* C15: clear sets the size to 0, an accepted pop_back takes 1 off the size
\* and keeps the elements before the last; both, like erase, keep the
\* capacity and the array and release no memory.
C15_ShrinkingKeepsCapacity ==
    /\ Accepted("clear") => Now.sz = 0
    /\ Accepted("pop_back") =>
          /\ Now.sz = call.pre.sz - 1
          /\ \A i \in 0..(Now.sz - 1) : Now.elems[i] = call.pre.elems[i]
    /\ (Accepted("clear") \/ Accepted("pop_back") \/ Accepted("erase")) =>
          /\ Now.max_sz = call.pre.max_sz
          /\ Now.values = call.pre.values
          /\ Live(heap) = call.prelive

\* a clear of a container that held two elements
C15_Witness == Accepted("clear") /\ call.pre.sz = 2 /\ A.max_sz >= 2 /\ A.values # NULL

\* C18: it++ advances the cursor by one and returns a cursor at the position
\* the cursor had before, equal to a copy taken before the call.
C18_PostIncrementReturnsOld ==
    call.op \in {"iterator_post_inc", "const_iterator_post_inc"} =>
        /\ call.self = MkIter(A.values, call.k + 1)
        /\ IterEq(call.it, MkIter(A.values, call.k))
        /\ A.values # NULL => call.it # NullIter

\* C19: v.push_back(v[i]) and v.insert(pos, v[i]) store the value v[i] had
\* before the call, and never read the argument after its array was released
\* or its slot overwritten.
C19_AliasedArgument ==
    /\ Accepted("push_back_ref") =>
          /\ ~call.stale
          /\ Now.elems[call.pre.sz] = call.pre.elems[call.src]
    /\ Accepted("insert_ref") =>
          /\ ~call.stale
          /\ Now.elems[call.k] = call.pre.elems[call.src]

Tgt == Snap(vec[call.tgt], heap)

Oth == Snap(vec[Other(call.tgt)], heap)

\* C11: the two containers own distinct arrays: no call on one of them changes
\* the size, capacity or elements of the other, in particular none made after
\* one was copy-constructed or copy-assigned from the other; v = v leaves the
\* size, capacity and elements of v unchanged.
C11_CopiesAreIndependent ==
    /\ call.op # "none" => Oth = call.other
    /\ vec["A"].values # NULL => vec["A"].values # vec["B"].values
    /\ Accepted("assign") =>
          /\ Tgt.sz = call.pre.sz
          /\ Tgt.max_sz = call.pre.max_sz
          /\ Tgt.elems = call.pre.elems

\* an element of A was overwritten while B held a copy of A, and B kept the
\* old value
C11_Witness ==
    /\ Accepted("index_assign") /\ call.tgt = "A" /\ call.pre.sz = 2
    /\ Oth.sz = 2 /\ Oth.max_sz = call.pre.max_sz /\ Oth.elems = call.pre.elems
    /\ Tgt.elems # Oth.elems

\* C12: a copy, made by construction or by assignment, has the size, the
\* elements and the capacity of its source, also when the source has spare
\* capacity.
C12_CopyEqualsSource ==
    /\ (Accepted("assign_from") \/ Accepted("copy_construct")) =>
          /\ Tgt.sz = call.other.sz
          /\ Tgt.elems = call.other.elems
          /\ Tgt.max_sz = call.other.max_sz
          /\ Tgt.values # call.other.values
    /\ Accepted("assign") =>
          /\ Tgt.sz = call.pre.sz
          /\ Tgt.elems = call.pre.elems
          /\ Tgt.max_sz = call.pre.max_sz

\* a copy was constructed from a source holding one element in two slots
C12_Witness ==
    /\ Accepted("copy_construct") /\ call.other.sz = 1 /\ call.other.max_sz = 2
    /\ Tgt.max_sz = 2

\* C16: every array the containers allocate is released exactly once: none
\* is allocated and held by no container (leaked), none is held after its
\* release or by two containers (released twice), also after a reallocation
\* or a copy that failed.
C16_NoLeakNoDoubleFree ==
    /\ Leaked(vec, heap) = {}
    /\ \A v \in Names : vec[v].values # NULL => heap[vec[v].values].live
    /\ vec["A"].values # NULL => vec["A"].values # vec["B"].values

\* C17: if building the temporary copy fails in v = w, v is left as it was;
\* after an assignment that succeeds, v is the copy and its previous array
\* has been released.
C17_AssignIsAllOrNothing ==
    call.op \in {"assign", "assign_from"} =>
        IF call.outcome # "ok"
        THEN /\ Tgt = call.pre
             /\ call.pre.values # NULL => heap[call.pre.values].live
             /\ Oth = call.other
        ELSE /\ LET from == IF call.op = "assign" THEN call.pre ELSE call.other
                IN /\ Tgt.sz = from.sz
                   /\ Tgt.elems = from.elems
                   /\ Tgt.max_sz = from.max_sz
             /\ Tgt.values # call.pre.values
             /\ call.pre.values # NULL => ~heap[call.pre.values].live

\* the copy of the second element failed while a container holding one
\* element was being assigned from one holding two
C17_Witness ==
    /\ call.op = "assign_from" /\ call.outcome = "copy_throw"
    /\ call.pre.sz = 1 /\ call.other.sz = 2
    /\ Leaked(vec, heap) # {}

====
